---- MODULE Spec2Model ----
(***************************************************************************)
(* A model of src/code/data_pipeline.py: the class PipelineGenerator, its  *)
(* constructor, the augmentation of one image, the four record             *)
(* materializers, get_size, get_pipeline, and the                           *)
(* iteration of the tf.data stream that get_pipeline returns.              *)
(*                                                                         *)
(* What is the program's own code is translated statement by statement.    *)
(* What the program calls (pandas.read_csv, tf.io.read_file, Dataset.map,  *)
(* flat_map, shuffle, repeat) is modelled by its documented contract:      *)
(*   - map(f, num_parallel_calls) runs f on several records at a time and  *)
(*     delivers the results in input order (deterministic is the default); *)
(*   - flat_map(f) delivers the elements of f(record) in order, one record *)
(*     after the other;                                                    *)
(*   - shuffle(buffer_size) keeps a buffer of that many elements and       *)
(*     delivers a randomly chosen one; repeat() restarts its input when    *)
(*     the input ends;                                                     *)
(*   - map and flat_map call f once, on symbolic tensors, when the         *)
(*     transformation is built: the Python statements of f, among them     *)
(*     np.random.randint(1000), run in that one call and their results are *)
(*     constants of the graph that is then run on every record;            *)
(*   - an error raised while a record is computed is raised by the pull    *)
(*     that would have delivered that record, and the iterator goes on.    *)
(*                                                                         *)
(* An image is the path it was read from and the list of operations        *)
(* applied to it since. Pixel values, image_size and resize only change    *)
(* the pixels and decide no branch other than the resize step itself, so   *)
(* they are not part of the state.                                         *)
(***************************************************************************)
EXTENDS Integers, Sequences, FiniteSets, TLC

MODE_ALL == "mode_all"
MODE_FLAT_ALL == "mode_flat_all"
MODE_SINGLE == "mode_single"
MODE_SEQUENCE == "mode_sequence"

\* self._modes, the list the constructor checks the mode against.
Modes == {MODE_ALL, MODE_FLAT_ALL, MODE_SINGLE, MODE_SEQUENCE}

\* The values a caller may pass as mode: the four modes and one that is not
\* (the class docstring names a MODE_MASK_MOG2 that the class does not define).
ModeInputs == Modes \cup {"mode_mask_mog2"}

\* Python's None, as the value of self._size before get_pipeline.
None == -1

\* No get_size call has returned since the last other operation.
NotCalled == -2

\* ---- bounds of the model ----
MaxN == 2
MaxRows == 2
MaxBuf == 2
MaxCalls == 2
MaxWorkers == 2
PullFactor == 10

\* ---- constants of the program ----
RandintHigh == 1000
ColorBelow == 500
ZoomFrom == 250
ZoomBelow == 750
ScaleCount == 5
DefaultImageIdx == 1

\* The label column of a manifest of r rows. The code never looks into a
\* label, it only carries it; consecutive rows get different labels (has_animal
\* is 0 or 1), so that a label carried to a neighbouring record shows.
LabelColumn(r) == [k \in 1 .. r |-> k % 2]

\* np.random.randint(1000) returns an integer of 0..999.
RandInt == 0 .. (RandintHigh - 1)

\* The draws the pipeline runs are checked with: one seed of each of the four
\* bands [0,250), [250,500), [500,750), [750,1000).
SeedSamples == {s \in RandInt : s % ZoomFrom = 0}

VARIABLES
    self,        \* the PipelineGenerator's fields that decide a branch
    ctor_error,  \* what __init__ raised: "none", "ValueError", "IndexError"
    manifest,    \* the CSV file and the image files, as they are on disk
    calls,       \* get_pipeline calls made
    loads,       \* pd.read_csv calls that returned a table
    completed,   \* get_pipeline calls that returned a stream
    get_error,   \* what the last get_pipeline call raised
    got,         \* what get_size returned, if it was the last operation
    seed,        \* the seed the traced _parse_data holds (0: the graph holds none)
    made,        \* a stream has been returned (the latest one is tracked)
    next_row,    \* the next manifest row the map or flat_map step reads
    pending,     \* records being computed or computed and not yet taken, in input order
    buffer,      \* the shuffle buffer
    out,         \* what the consumer's pulls returned in the current pass, in order
    pulls,       \* pulls that returned an element or raised
    exhausted,   \* a pull has signalled the end of the stream
    budget,      \* the consumer's step budget, in multiples of the size
    aug          \* one call of _augment_img on its own: its seed and its result

cfgvars == <<self, ctor_error, manifest, budget>>
callvars == <<calls, loads, completed, get_error>>
streamvars == <<seed, made, next_row, pending, buffer, out, pulls, exhausted>>
vars == <<self, ctor_error, manifest, budget, calls, loads, completed, get_error,
          got, seed, made, next_row, pending, buffer, out, pulls, exhausted, aug>>

\* ------------------------------------------------------------------------
\* __init__
\* ------------------------------------------------------------------------

\* A constructor that checks the mode and not the image index.
InitErrorModeOnly(mode, sequence_image_count, image_idx) ==
    IF mode \notin Modes THEN "ValueError" ELSE "none"

\* The two checks of the constructor, in their order.
InitError(mode, sequence_image_count, image_idx) ==
    IF mode \notin Modes THEN "ValueError"
    ELSE IF mode = MODE_SINGLE
            /\ (image_idx <= 0 \/ image_idx > sequence_image_count)
         THEN "IndexError"
         ELSE "none"

\* The fields the constructor stores; _size starts as None.
NewSelf(mode, sequence_image_count, image_idx, is_training, shuffle_buffer_size) ==
    [mode |-> mode,
     sequence_image_count |-> sequence_image_count,
     image_idx |-> image_idx,
     is_training |-> is_training,
     shuffle_buffer_size |-> shuffle_buffer_size,
     size |-> None]

\* ------------------------------------------------------------------------
\* Images and their operations
\* ------------------------------------------------------------------------

Apply(x, name, arg) == [x EXCEPT !.ops = Append(@, [op |-> name, arg |-> arg])]

\* tf.io.read_file of the image of row `metadata`, column image<img_num>.
read_file(metadata, img_num) == [path |-> <<metadata, img_num>>, ops |-> <<>>]

\* Whether that file can be read and decoded.
Readable(metadata, img_num) == <<metadata, img_num>> \notin manifest.unreadable

_decode_img(img) ==
    Apply(Apply(img, "decode_jpeg", 3), "convert_image_dtype", 0)

flip(x, s) == Apply(x, "random_flip_left_right", s)

color(x, s) ==
    Apply(Apply(Apply(Apply(x, "random_hue", s), "random_saturation", s),
                "random_brightness", s), "random_contrast", s)

\* scales = list(np.arange(0.9, 1.0, 0.02)) has five entries.
zoom(x, s) == Apply(Apply(x, "crop_and_resize", s % ScaleCount), "squeeze", 0)

clip_by_value(x) == Apply(x, "clip_by_value", 0)

\* _augment_img with the colour band closed at its upper end (seed <= 500).
AugmentImgColorInclusive(img, s) ==
    IF ~self.is_training THEN img
    ELSE LET flipped == flip(img, s)
             colored == IF s <= ColorBelow THEN color(flipped, s) ELSE flipped
             zoomed == IF s >= ZoomFrom /\ s < ZoomBelow
                       THEN zoom(colored, s) ELSE colored
         IN clip_by_value(zoomed)

_augment_img(img, s) ==
    IF ~self.is_training THEN img
    ELSE LET flipped == flip(img, s)
             colored == IF s < ColorBelow THEN color(flipped, s) ELSE flipped
             zoomed == IF s >= ZoomFrom /\ s < ZoomBelow
                       THEN zoom(colored, s) ELSE colored
         IN clip_by_value(zoomed)

\* ------------------------------------------------------------------------
\* The record materializers. Each returns what the stream gets for one
\* record: the record's elements in order, or one "error" item when a read
\* or a decode raised. `s` is what np.random.randint(1000) returned.
\* ------------------------------------------------------------------------

Element(metadata, slot, label, data) ==
    [kind |-> "elem", row |-> metadata, slot |-> slot, label |-> label, data |-> data]

Raised(metadata) ==
    [kind |-> "error", row |-> metadata, slot |-> 0, label |-> 0, data |-> <<>>]

\* The columns image1 .. imageN.
Slots == 1 .. self.sequence_image_count

LoadImg(metadata, img_num, s) ==
    _augment_img(_decode_img(read_file(metadata, img_num)), s)

_parse_data_all(metadata, label, s) ==
    IF \E n \in Slots : ~Readable(metadata, n) THEN <<Raised(metadata)>>
    ELSE <<Element(metadata, 0, label, [n \in Slots |-> LoadImg(metadata, n, s)])>>

_parse_data_single(metadata, label, s) ==
    IF ~Readable(metadata, self.image_idx) THEN <<Raised(metadata)>>
    ELSE <<Element(metadata, 0, label, <<LoadImg(metadata, self.image_idx, s)>>)>>

\* _parse_data_flat handing on the images read before the one that failed.
ParseDataFlatPartial(metadata, label, s) ==
    LET bad == {n \in Slots : ~Readable(metadata, n)}
        upto == IF bad = {} THEN self.sequence_image_count
                ELSE (CHOOSE n \in bad : \A m \in bad : n <= m) - 1
    IN [n \in 1 .. upto |-> Element(metadata, n, label, <<LoadImg(metadata, n, s)>>)]
       \o (IF bad = {} THEN <<>> ELSE <<Raised(metadata)>>)

\* _parse_data_flat with the loop one image short: range(1, N).
ParseDataFlatShort(metadata, label, s) ==
    IF \E n \in Slots : ~Readable(metadata, n) THEN <<Raised(metadata)>>
    ELSE [n \in 1 .. (self.sequence_image_count - 1) |->
             Element(metadata, n, label, <<LoadImg(metadata, n, s)>>)]

\* _parse_data_flat with the images appended in reverse.
ParseDataFlatReversed(metadata, label, s) ==
    IF \E n \in Slots : ~Readable(metadata, n) THEN <<Raised(metadata)>>
    ELSE [n \in Slots |->
             Element(metadata, self.sequence_image_count + 1 - n, label,
                     <<LoadImg(metadata, self.sequence_image_count + 1 - n, s)>>)]

_parse_data_flat(metadata, label, s) ==
    IF \E n \in Slots : ~Readable(metadata, n) THEN <<Raised(metadata)>>
    ELSE [n \in Slots |-> Element(metadata, n, label, <<LoadImg(metadata, n, s)>>)]

\* _parse_data_sequence drawing inside the loop: every image its own seed.
ParseDataSequenceReseed(metadata, label, s) ==
    IF \E n \in Slots : ~Readable(metadata, n) THEN <<Raised(metadata)>>
    ELSE <<Element(metadata, 0, label,
                   [n \in Slots |->
                       LoadImg(metadata, n, (s + ZoomFrom * (n - 1)) % RandintHigh)])>>

_parse_data_sequence(metadata, label, s) ==
    IF \E n \in Slots : ~Readable(metadata, n) THEN <<Raised(metadata)>>
    ELSE <<Element(metadata, 0, label, [n \in Slots |-> LoadImg(metadata, n, s)])>>

\* self._parse_data, as the constructor binds it.
_parse_data(metadata, label, s) ==
    IF self.mode = MODE_ALL THEN _parse_data_all(metadata, label, s)
    ELSE IF self.mode = MODE_FLAT_ALL THEN _parse_data_flat(metadata, label, s)
    ELSE IF self.mode = MODE_SEQUENCE THEN _parse_data_sequence(metadata, label, s)
    ELSE _parse_data_single(metadata, label, s)

\* ------------------------------------------------------------------------
\* get_size, get_pipeline
\* ------------------------------------------------------------------------

Constructed == ctor_error = "none"

RowCount == Len(manifest.labels)

\* The size without the factor of MODE_FLAT_ALL.
SizeOfRows(row_count) == row_count

\* self._size as get_pipeline sets it.
SizeOf(row_count) ==
    IF self.mode = MODE_FLAT_ALL THEN row_count * self.sequence_image_count
    ELSE row_count

\* A table kept from the first read on.
ReadCsvCached(n) == IF n = 0 THEN 1 ELSE n

\* pd.read_csv(self._dataset_file): every call reads the file; `n` is the
\* number of reads so far.
read_csv(n) == n + 1

get_size ==
    /\ Constructed
    /\ got' = self.size
    /\ UNCHANGED <<cfgvars, callvars, streamvars, aug>>

\* What is left of the drawn seed in the traced function: _augment_img returns
\* before it uses the seed when is_training is False.
TracedSeed(s) == IF self.is_training THEN s ELSE 0

\* One call of get_pipeline. read_csv raises when the file cannot be read;
\* the column selections raise KeyError when a column is missing, after
\* self._size has been set; otherwise the stream is built, which traces
\* self._parse_data (one np.random.randint draw).
get_pipeline ==
    /\ Constructed
    /\ calls < MaxCalls
    /\ calls' = calls + 1
    /\ got' = NotCalled
    /\ UNCHANGED <<ctor_error, manifest, budget, aug>>
    /\ IF manifest.status = "unreadable"
       THEN /\ get_error' = "FileNotFoundError"
            /\ UNCHANGED <<self, loads, completed, streamvars>>
       ELSE /\ loads' = read_csv(loads)
            /\ self' = [self EXCEPT !.size = SizeOf(RowCount)]
            /\ IF manifest.status = "missing_column"
                  \/ (self.mode = MODE_SINGLE /\ self.image_idx \notin Slots)
               THEN /\ get_error' = "KeyError"
                    /\ UNCHANGED <<completed, streamvars>>
               ELSE /\ get_error' = "none"
                    /\ completed' = completed + 1
                    /\ \E s \in SeedSamples : seed' = TracedSeed(s)
                    /\ made' = TRUE
                    /\ next_row' = 1
                    /\ pending' = <<>>
                    /\ buffer' = {}
                    /\ out' = <<>>
                    /\ pulls' = 0
                    /\ exhausted' = FALSE

\* ------------------------------------------------------------------------
\* The stream
\* ------------------------------------------------------------------------

Running == Constructed /\ made /\ ~exhausted

\* dataset_images.shuffle(...) and .repeat() are applied in training mode.
Shuffled == self.is_training

\* A stream built without repeat().
NeverRepeated == FALSE

Repeated == self.is_training

\* The pulls the consumer still makes.
MayPull == pulls < budget * self.size + 1

\* A map step that hands on whichever record is finished, the latest first.
MapEmitFinished ==
    IF \E i \in 1 .. Len(pending) : pending[i].done
    THEN CHOOSE i \in 1 .. Len(pending) :
            pending[i].done /\ \A j \in 1 .. Len(pending) : pending[j].done => j <= i
    ELSE 1

\* Which record of `pending` the map step hands on: the oldest one, whichever
\* finished first (map is deterministic unless the options say otherwise).
MapEmitIndex == 1

HeadReady == pending # <<>> /\ pending[MapEmitIndex].done

\* The map or flat_map step has read every row and handed on every result.
UpstreamEnded == next_row > RowCount /\ pending = <<>>

\* map: a worker starts the next record.
MapStart ==
    /\ Running
    /\ self.mode # MODE_FLAT_ALL
    /\ next_row <= RowCount
    /\ Len(pending) < MaxWorkers
    /\ pending' = Append(pending,
          [item |-> _parse_data(next_row, manifest.labels[next_row], seed)[1],
           done |-> FALSE])
    /\ next_row' = next_row + 1
    /\ got' = NotCalled
    /\ UNCHANGED <<cfgvars, callvars, seed, made, buffer, out, pulls, exhausted, aug>>

\* map: a worker finishes its record; workers finish in any order.
MapFinish ==
    /\ Running
    /\ \E i \in 1 .. Len(pending) :
          /\ ~pending[i].done
          /\ pending' = [pending EXCEPT ![i].done = TRUE]
    /\ got' = NotCalled
    /\ UNCHANGED <<cfgvars, callvars, seed, made, next_row, buffer, out, pulls, exhausted, aug>>

\* flat_map: when the current record's elements are used up, the next record
\* is materialized and its elements are queued.
FlatMapNext ==
    /\ Running
    /\ self.mode = MODE_FLAT_ALL
    /\ next_row <= RowCount
    /\ pending = <<>>
    /\ LET items == _parse_data(next_row, manifest.labels[next_row], seed)
       IN pending' = [k \in 1 .. Len(items) |-> [item |-> items[k], done |-> TRUE]]
    /\ next_row' = next_row + 1
    /\ got' = NotCalled
    /\ UNCHANGED <<cfgvars, callvars, seed, made, buffer, out, pulls, exhausted, aug>>

RemoveAt(q, i) == [k \in 1 .. (Len(q) - 1) |-> IF k < i THEN q[k] ELSE q[k + 1]]

\* shuffle: the buffer takes the next element of its input.
ShuffleFill ==
    /\ Running
    /\ Shuffled
    /\ Cardinality(buffer) < self.shuffle_buffer_size
    /\ HeadReady
    /\ pending[MapEmitIndex].item.kind = "elem"
    /\ buffer' = buffer \cup {pending[MapEmitIndex].item}
    /\ pending' = RemoveAt(pending, MapEmitIndex)
    /\ got' = NotCalled
    /\ UNCHANGED <<cfgvars, callvars, seed, made, next_row, out, pulls, exhausted, aug>>

\* A pull that returns an element: the next one of the input, or in training
\* mode any one of a full buffer (or of what is left when the input ended).
PullElement ==
    /\ Running
    /\ MayPull
    /\ IF Shuffled
       THEN /\ buffer # {}
            /\ Cardinality(buffer) >= self.shuffle_buffer_size \/ UpstreamEnded
            /\ \E e \in buffer :
                  /\ out' = Append(out, e)
                  /\ buffer' = buffer \ {e}
            /\ UNCHANGED pending
       ELSE /\ HeadReady
            /\ pending[MapEmitIndex].item.kind = "elem"
            /\ out' = Append(out, pending[MapEmitIndex].item)
            /\ pending' = RemoveAt(pending, MapEmitIndex)
            /\ UNCHANGED buffer
    /\ pulls' = pulls + 1
    /\ got' = NotCalled
    /\ UNCHANGED <<cfgvars, callvars, seed, made, next_row, exhausted, aug>>

\* A pull that raises: the record it reached failed to read or decode.
PullError ==
    /\ Running
    /\ MayPull
    /\ Shuffled => Cardinality(buffer) < self.shuffle_buffer_size
    /\ HeadReady
    /\ pending[MapEmitIndex].item.kind = "error"
    /\ out' = Append(out, pending[MapEmitIndex].item)
    /\ pending' = RemoveAt(pending, MapEmitIndex)
    /\ pulls' = pulls + 1
    /\ got' = NotCalled
    /\ UNCHANGED <<cfgvars, callvars, seed, made, next_row, buffer, exhausted, aug>>

\* repeat: the pass ended, the next one starts.
Repeat ==
    /\ Running
    /\ Repeated
    /\ UpstreamEnded
    /\ buffer = {}
    /\ next_row' = 1
    /\ out' = <<>>
    /\ got' = NotCalled
    /\ UNCHANGED <<cfgvars, callvars, seed, made, pending, buffer, pulls, exhausted, aug>>

\* A pull that signals the end of the stream.
StopIteration ==
    /\ Running
    /\ ~Repeated
    /\ UpstreamEnded
    /\ buffer = {}
    /\ exhausted' = TRUE
    /\ got' = NotCalled
    /\ UNCHANGED <<cfgvars, callvars, seed, made, next_row, pending, buffer, out, pulls, aug>>

\* ------------------------------------------------------------------------
\* Specifications
\* ------------------------------------------------------------------------

\* The image a lone _augment_img call is given.
AugInput == _decode_img(read_file(1, 1))

NoAug == [seed |-> 0, called |-> FALSE, img |-> AugInput]

\* The image files that cannot be read or decoded, of r rows of n images:
\* none, any one of them, or all of them.
BadFiles(r, n) ==
    {{}} \cup {{p} : p \in (1 .. r) \X (1 .. n)} \cup {(1 .. r) \X (1 .. n)}

\* The manifests: one to max_rows rows of n image columns, the labels, the
\* image files that cannot be read, and whether the CSV file itself can be
\* read and has its columns. (A table without rows has no path strings for
\* read_file to take; it is left out.)
Manifests(n, statuses, max_rows) ==
    UNION {[status : statuses,
            labels : {LabelColumn(r)},
            unreadable : BadFiles(r, n)]
           : r \in 1 .. max_rows}

NoStream ==
    /\ calls = 0 /\ loads = 0 /\ completed = 0
    /\ get_error = "none"
    /\ got = NotCalled
    /\ seed = 0
    /\ made = FALSE
    /\ next_row = 1
    /\ pending = <<>>
    /\ buffer = {}
    /\ out = <<>>
    /\ pulls = 0
    /\ exhausted = FALSE

\* After a construction that succeeded: every mode, every image count, the
\* image index within range (it is 1 unless the caller sets it), in training
\* mode and not, over a manifest that loads.
Init ==
    /\ \E mode \in Modes, n \in 1 .. MaxN, training \in BOOLEAN, b \in 1 .. MaxBuf :
          \E idx \in (IF mode = MODE_SINGLE THEN 1 .. n ELSE {DefaultImageIdx}) :
             /\ self = NewSelf(mode, n, idx, training, b)
             /\ ctor_error = InitError(mode, n, idx)
             /\ manifest \in Manifests(n, {"ok"}, MaxRows)
    /\ budget = 1
    /\ aug = NoAug
    /\ NoStream

\* The object's first get_pipeline call.
first_get_pipeline == calls = 0 /\ get_pipeline

\* One stream: get_pipeline is called once and the stream it returns is pulled.
Next ==
    \/ first_get_pipeline
    \/ MapStart
    \/ MapFinish
    \/ FlatMapNext
    \/ ShuffleFill
    \/ PullElement
    \/ PullError
    \/ Repeat
    \/ StopIteration

Spec == Init /\ [][Next]_vars

\* Not in training mode: one stream over a manifest of up to MaxRows + 1 rows,
\* so that a record is handed on while two later ones are being computed.
InitEval ==
    /\ \E mode \in Modes, n \in 1 .. MaxN :
          \E idx \in (IF mode = MODE_SINGLE THEN 1 .. n ELSE {DefaultImageIdx}) :
             /\ self = NewSelf(mode, n, idx, FALSE, 1)
             /\ ctor_error = InitError(mode, n, idx)
             /\ manifest \in Manifests(n, {"ok"}, MaxRows + 1)
    /\ budget = 1
    /\ aug = NoAug
    /\ NoStream

NextEval ==
    \/ first_get_pipeline
    \/ MapStart
    \/ MapFinish
    \/ FlatMapNext
    \/ PullElement
    \/ PullError
    \/ StopIteration

SpecEval == InitEval /\ [][NextEval]_vars

\* get_size and get_pipeline called in any order and any number of times (up
\* to MaxCalls get_pipeline calls) while the latest stream is pulled, over
\* manifests that load, that cannot be read, or that lack a column; not in
\* training mode, every image readable.
InitCalls ==
    /\ \E mode \in Modes, n \in 1 .. MaxN :
          \E idx \in (IF mode = MODE_SINGLE THEN 1 .. n ELSE {DefaultImageIdx}) :
             /\ self = NewSelf(mode, n, idx, FALSE, 1)
             /\ ctor_error = InitError(mode, n, idx)
             /\ manifest \in Manifests(n, {"ok", "unreadable", "missing_column"},
                                       MaxRows)
    /\ manifest.unreadable = {}
    /\ budget = 1
    /\ aug = NoAug
    /\ NoStream

NextCalls ==
    \/ get_size
    \/ get_pipeline
    \/ MapStart
    \/ MapFinish
    \/ FlatMapNext
    \/ PullElement
    \/ StopIteration

SpecCalls == InitCalls /\ [][NextCalls]_vars

\* The constructor on every argument a caller may pass, the modes that are
\* none and the image indexes out of range among them; the manifest is one
\* row that can be read.
InitCtor ==
    /\ \E mode \in ModeInputs, n \in 1 .. MaxN, idx \in (0 - 1) .. (MaxN + 1),
          training \in BOOLEAN, b \in 1 .. MaxBuf :
             /\ self = NewSelf(mode, n, idx, training, b)
             /\ ctor_error = InitError(mode, n, idx)
             /\ manifest \in Manifests(n, {"ok"}, 1)
    /\ budget = 1
    /\ aug = NoAug
    /\ NoStream

SpecCtor == InitCtor /\ [][Next]_vars

\* A consumer that pulls PullFactor times the size of the stream and once more.
InitLong ==
    /\ \E mode \in Modes, n \in 1 .. MaxN, training \in BOOLEAN, b \in 1 .. MaxBuf :
          \E idx \in (IF mode = MODE_SINGLE THEN 1 .. n ELSE {DefaultImageIdx}) :
             /\ self = NewSelf(mode, n, idx, training, b)
             /\ ctor_error = InitError(mode, n, idx)
             /\ manifest \in Manifests(n, {"ok"}, MaxRows)
    /\ budget = PullFactor
    /\ aug = NoAug
    /\ NoStream

SpecLong == InitLong /\ [][Next]_vars

\* _augment_img on its own: every seed np.random.randint(1000) can return,
\* in training mode and not.
InitAug ==
    /\ \E training \in BOOLEAN :
          self = NewSelf(MODE_ALL, 1, DefaultImageIdx, training, 1)
    /\ ctor_error = "none"
    /\ manifest \in Manifests(1, {"ok"}, 1)
    /\ manifest.unreadable = {}
    /\ budget = 1
    /\ \E s \in RandInt : aug = [seed |-> s, called |-> FALSE, img |-> AugInput]
    /\ NoStream

AugmentImg ==
    /\ ~aug.called
    /\ aug' = [aug EXCEPT !.called = TRUE, !.img = _augment_img(aug.img, aug.seed)]
    /\ UNCHANGED <<cfgvars, callvars, streamvars, got>>

NextAug == AugmentImg

SpecAug == InitAug /\ [][NextAug]_vars

\* ------------------------------------------------------------------------
\* Properties
\* ------------------------------------------------------------------------

\* The size the documentation gives a loaded manifest.
ExpectedSize ==
    IF self.mode = "mode_flat_all" THEN RowCount * self.sequence_image_count
    ELSE RowCount

\* The images a record needs: all of them, or the selected one.
Needed == IF self.mode = "mode_single" THEN {self.image_idx} ELSE Slots

\* The record of row r cannot be materialized.
Fails(r) == \E n \in Needed : <<r, n>> \in manifest.unreadable

Evaluating == Constructed /\ made /\ ~self.is_training
Training == Constructed /\ made /\ self.is_training

ErrorsOut == Cardinality({k \in 1 .. Len(out) : out[k].kind = "error"})

OpNames(img) == [k \in 1 .. Len(img.ops) |-> img.ops[k].op]

\* C1 (as stated): get_size returns None while no get_pipeline call has
\* returned, and the row count (times N in MODE_FLAT_ALL) once one has.
C1_NoneUntilCompleted ==
    got # NotCalled =>
        /\ completed = 0 => got = None
        /\ completed > 0 => got = ExpectedSize

\* C1 (amended): get_size returns None while no get_pipeline call has loaded
\* the manifest, and from the first load on the row count of the manifest, times
\* N in MODE_FLAT_ALL, also when the call that loaded it then raised.
C1_NoneUntilLoaded ==
    got # NotCalled => got = (IF loads = 0 THEN None ELSE ExpectedSize)

\* get_size returned the size after a get_pipeline call that loaded the manifest
\* and raised on a missing column.
C1_Witness ==
    /\ got = ExpectedSize
    /\ loads > 0
    /\ completed = 0
    /\ self.mode = MODE_FLAT_ALL
    /\ self.sequence_image_count >= 2

\* C2: not in training mode and with every image readable, the stream returns
\* exactly get_size() elements and no error, and then signals its end.
C2_EvalEmitsSize ==
    (Evaluating /\ manifest.unreadable = {}) =>
        /\ Len(out) <= self.size
        /\ \A k \in 1 .. Len(out) : out[k].kind = "elem"
        /\ exhausted => Len(out) = self.size
        /\ Len(out) = self.size => (exhausted \/ ENABLED StopIteration)

\* A MODE_FLAT_ALL stream of two rows or more ended after R x N elements.
C2_Witness ==
    /\ Evaluating
    /\ exhausted
    /\ self.mode = MODE_FLAT_ALL
    /\ RowCount >= 2
    /\ self.sequence_image_count >= 2
    /\ Len(out) = RowCount * self.sequence_image_count
    /\ manifest.unreadable = {}

\* A step of the stream that brings the next pull's result nearer or is it.
StreamStep ==
    \/ MapStart \/ MapFinish \/ FlatMapNext \/ ShuffleFill
    \/ PullElement \/ PullError \/ Repeat

\* C3: in training mode the stream never signals its end, and as long as the
\* consumer pulls the stream has a step to take towards the next result.
C3_TrainingNeverEnds ==
    Training =>
        /\ ~exhausted
        /\ MayPull => ENABLED StreamStep

\* In training mode, a pull after more than ten times the size returned an element.
C3_Witness ==
    /\ Training
    /\ pulls > 10 * self.size
    /\ out # <<>>
    /\ out[Len(out)].kind = "elem"

\* C4: MODE_FLAT_ALL, not training, every image readable: the k-th element is
\* image ((k-1) mod N)+1 of row ((k-1) div N)+1 with that row's label, and the
\* stream ends after R x N elements.
C4_FlatRecordByRecord ==
    (Evaluating /\ self.mode = "mode_flat_all" /\ manifest.unreadable = {}) =>
        /\ \A k \in 1 .. Len(out) :
              LET r == ((k - 1) \div self.sequence_image_count) + 1
                  n == ((k - 1) % self.sequence_image_count) + 1
              IN /\ out[k].kind = "elem"
                 /\ Len(out[k].data) = 1
                 /\ out[k].data[1].path = <<r, n>>
                 /\ out[k].label = manifest.labels[r]
        /\ exhausted => Len(out) = RowCount * self.sequence_image_count

\* The first image of the second row was returned right after the N images of
\* the first.
C4_Witness ==
    /\ Evaluating
    /\ self.mode = MODE_FLAT_ALL
    /\ self.sequence_image_count >= 2
    /\ Len(out) = self.sequence_image_count + 1
    /\ out[Len(out)].data[1].path = <<2, 1>>

\* C5: not training and not MODE_FLAT_ALL: the k-th result the consumer gets
\* (an element, or the error of a record that failed) is that of row k, in
\* whichever order the workers of the map step finish.
C5_MapKeepsOrder ==
    (Evaluating /\ self.mode # "mode_flat_all") =>
        \A k \in 1 .. Len(out) :
            /\ out[k].row = k
            /\ \A i \in DOMAIN out[k].data : out[k].data[i].path[1] = k
            /\ out[k].kind = "elem" => out[k].label = manifest.labels[k]

\* The first record was handed on; of the two being computed, the later one
\* finished first and waits for the earlier one.
C5_Witness ==
    /\ Evaluating
    /\ self.mode # MODE_FLAT_ALL
    /\ Len(out) = 1
    /\ out[1].row = 1
    /\ Len(pending) = 2
    /\ ~pending[1].done
    /\ pending[2].done
    /\ pending[2].item.row = 3

\* The operations _augment_img has to add for a seed in training mode.
ExpectedStages(s) ==
    <<"random_flip_left_right">>
    \o (IF s < 500
        THEN <<"random_hue", "random_saturation", "random_brightness", "random_contrast">>
        ELSE <<>>)
    \o (IF 250 <= s /\ s < 750 THEN <<"crop_and_resize", "squeeze">> ELSE <<>>)
    \o <<"clip_by_value">>

\* The operations _augment_img added to its input.
StagesOf(s) ==
    LET res == OpNames(_augment_img(AugInput, s))
    IN SubSeq(res, Len(AugInput.ops) + 1, Len(res))

HasStage(s, name) == \E k \in DOMAIN StagesOf(s) : StagesOf(s)[k] = name

\* C6: not in training mode _augment_img returns its input for every seed; in
\* training mode it adds flip, colour iff seed < 500, zoom iff 250 <= seed < 750,
\* then the clamp, in that order. Of the seeds 0..999, 500 get colour, 500 get
\* zoom, 250 get both and 250 get neither.
C6_StagesBySeed ==
    /\ aug.called =>
          /\ ~self.is_training => aug.img = AugInput
          /\ self.is_training =>
                /\ SubSeq(aug.img.ops, 1, Len(AugInput.ops)) = AugInput.ops
                /\ SubSeq(OpNames(aug.img), Len(AugInput.ops) + 1, Len(aug.img.ops))
                      = ExpectedStages(aug.seed)
    /\ (aug.called /\ self.is_training /\ aug.seed = 0) =>
          /\ Cardinality({s \in 0 .. 999 : HasStage(s, "random_hue")}) = 500
          /\ Cardinality({s \in 0 .. 999 : HasStage(s, "crop_and_resize")}) = 500
          /\ Cardinality({s \in 0 .. 999 : HasStage(s, "random_hue")
                                            /\ HasStage(s, "crop_and_resize")}) = 250
          /\ Cardinality({s \in 0 .. 999 : ~HasStage(s, "random_hue")
                                            /\ ~HasStage(s, "crop_and_resize")}) = 250

\* _augment_img was called in training mode with a seed that gets colour and zoom.
C6_Witness ==
    /\ aug.called
    /\ self.is_training
    /\ aug.seed = 499
    /\ Len(aug.img.ops) = Len(AugInput.ops) + 8

\* The seeds the random operations of an image were given.
SeedsOf(img) ==
    {img.ops[k].arg : k \in {j \in 1 .. Len(img.ops) :
        img.ops[j].op \in {"random_flip_left_right", "random_hue", "random_saturation",
                           "random_brightness", "random_contrast"}}}

\* What the stream holds or has handed to the consumer.
Materialized ==
    {out[k] : k \in 1 .. Len(out)} \cup buffer
    \cup {pending[k].item : k \in 1 .. Len(pending)}

\* C7: the images of one record are augmented with one seed of 0..999: within
\* an element, and among the elements of one row in MODE_FLAT_ALL, every image
\* has the same operations with the same seed and the same crop scale.
C7_OneSeedPerRecord ==
    (Constructed /\ made) =>
        \A e \in Materialized : \A f \in Materialized :
            (e.kind = "elem" /\ f.kind = "elem" /\ e.row = f.row) =>
                \A i \in DOMAIN e.data : \A j \in DOMAIN f.data :
                    /\ e.data[i].ops = f.data[j].ops
                    /\ SeedsOf(e.data[i]) \subseteq 0 .. 999
                    /\ Cardinality(SeedsOf(e.data[i])) <= 1

\* A MODE_SEQUENCE element of two images or more, coloured and zoomed, was returned.
C7_Witness ==
    /\ Training
    /\ self.mode = MODE_SEQUENCE
    /\ \E k \in 1 .. Len(out) :
          /\ out[k].kind = "elem"
          /\ Len(out[k].data) >= 2
          /\ \E a \in DOMAIN out[k].data[2].ops : out[k].data[2].ops[a].op = "random_hue"
          /\ \E a \in DOMAIN out[k].data[2].ops : out[k].data[2].ops[a].op = "crop_and_resize"

C9_FailedRecordGivesNothing ==
    (Constructed /\ made) =>
        /\ \A e \in Materialized : e.kind = "elem" => ~Fails(e.row)
        /\ ErrorsOut =
              Cardinality({r \in 1 .. (next_row - 1) :
                              /\ Fails(r)
                              /\ \A k \in 1 .. Len(pending) : pending[k].item.row # r})

\* In MODE_FLAT_ALL a record whose last image cannot be read raised its error
\* and gave no element.
C9_Witness ==
    /\ Constructed /\ made
    /\ self.mode = MODE_FLAT_ALL
    /\ self.sequence_image_count >= 2
    /\ manifest.unreadable = {<<1, self.sequence_image_count>>}
    /\ out # <<>>
    /\ out[1].kind = "error"
    /\ out[1].row = 1

\* C10 (as stated): once a get_pipeline call has returned, the manifest has
\* been loaded exactly once, however many calls were made, and the size is the
\* row count of that load.
C10_LoadedOnce ==
    /\ calls = 0 => loads = 0
    /\ completed >= 1 => (loads = 1 /\ self.size = ExpectedSize)

\* C10 (amended): every get_pipeline call loads the manifest again: the number
\* of loads is the number of calls whose read succeeded (0 before the first),
\* and the size is None before the first load and the row count of the latest
\* load after it.
C10_LoadedPerCall ==
    /\ loads = (IF manifest.status = "unreadable" THEN 0 ELSE calls)
    /\ self.size = (IF loads = 0 THEN None ELSE ExpectedSize)

\* Two get_pipeline calls returned and the manifest was loaded twice.
C10_Witness ==
    /\ completed = 2
    /\ loads = 2
    /\ self.size = ExpectedSize

====
